---- MODULE Spec2Model ----
(***************************************************************************)
(* A model of spk's git-remote layer (src/lib/gitutils.ts) and of the      *)
(* onboarding validators exercised by commands/deployment/onboard.test.ts. *)
(*                                                                         *)
(* Strings are sequences of chunks.  A chunk is an atomic piece of text    *)
(* (a host label, a separator, a path segment); two strings are equal iff  *)
(* their chunk sequences are equal, concatenation is \o, and               *)
(* String.prototype.includes is a contiguous sub-sequence search.  The     *)
(* literals of the templates are always cut at the same places ("/", ".",  *)
(* "https://", ...), so equal texts have equal chunkings.                  *)
(***************************************************************************)
EXTENDS Naturals, Sequences, FiniteSets

VARIABLES
    \* ---- remote URL resolver (getRepositoryName/Url, getPullRequestLink)
    parsedUrl,      \* what GitUrlParse(originUrl) returned
    baseBranch,     \* getPullRequestLink's baseBranch argument
    newBranch,      \* getPullRequestLink's newBranch argument
    repoName,       \* outcome of getRepositoryName, NotCalled before the call
    repoUrl,        \* outcome of getRepositoryUrl
    prLink,         \* outcome of getPullRequestLink
    \* ---- checkoutCommitPushCreatePRLink and the repository it works on
    pc,             \* the step the workflow awaits next, "done" or "failed"
    steps,          \* the steps started so far, in order
    newBranchName,  \* the argument newBranchName
    currentBranch,  \* the local currentBranch (None before it is fetched)
    originUrl,      \* the local originUrl, as git-url-parse reads it
    pullRequestLink,\* the local pullRequestLink
    infoLog,        \* what logger.info received
    thrown,         \* the error the workflow threw (None while it runs)
    head,           \* repository: the branch checked out
    localBranches,  \* repository: the local branches
    commits,        \* repository: commits made by the workflow
    pushes,         \* remote: pushes received from the workflow
    origin,         \* repository: remote.origin.url, as git-url-parse reads it
    startBranch,    \* repository: the branch checked out when the workflow was entered
    \* ---- tryGetGitOrigin
    appRepoUrl,     \* process.env.APP_REPO_URL (Undefined when unset)
    absRepoPath,    \* the argument absRepoPath (Undefined when omitted)
    gitConfig,      \* remote.origin.url of each repository path (NoRemote if unset)
    originPc,       \* "call", "getOriginUrl" (the fallback is pending) or "done"
    gitConfigCalls, \* how many times `git config --get remote.origin.url` ran
    gitExit,        \* "notRun", "ok" or "failed": how that git call ended
    originResult,   \* outcome of tryGetGitOrigin
    debugLog,       \* what logger.debug received
    warnLog,        \* what logger.warn received
    azdoOrigin,     \* outcome of a direct call of getAzdoOriginUrl
    gitOrigin,      \* outcome of a direct call of getOriginUrl
    \* ---- onboarding validators
    requiredArgs,   \* the seven arguments of validateRequiredArguments
    argErrors,      \* outcome of validateRequiredArguments
    storageName,    \* the argument of validateStorageName
    storageVerdicts,\* the verdicts validateStorageName gave for it, in order
    tableName,      \* the argument of validateTableName
    tableVerdicts   \* the verdicts validateTableName gave for it, in order

resolverVars == <<parsedUrl, baseBranch, newBranch, repoName, repoUrl, prLink>>

workflowVars ==
    <<pc, steps, newBranchName, currentBranch, originUrl, pullRequestLink, infoLog,
      thrown, head, localBranches, commits, pushes, origin, startBranch>>

originVars ==
    <<appRepoUrl, absRepoPath, gitConfig, originPc, gitConfigCalls, gitExit,
      originResult, debugLog, warnLog, azdoOrigin, gitOrigin>>

onboardVars ==
    <<requiredArgs, argErrors, storageName, storageVerdicts, tableName, tableVerdicts>>

vars == <<resolverVars, workflowVars, originVars, onboardVars>>

None == [state |-> "none"]

----------------------------------------------------------------------------
(* Strings *)

\* s.includes(pat), pat non-empty
Includes(s, pat) ==
    \E i \in 1..Len(s) : i + Len(pat) - 1 <= Len(s) /\ SubSeq(s, i, i + Len(pat) - 1) = pat

\* s.startsWith("http"): the text "http" is a chunk of its own in every host
\* of the model that begins with it
StartsWithHttp(s) ==
    Len(s) > 0 /\ s[1] = "http"

\* a chunk in lower case
LowerChunk(c) ==
    CASE c = "SSH" -> "ssh"
      [] c = "Ssh" -> "ssh"
      [] c = "HTTPS" -> "https"
      [] c = "Https" -> "https"
      [] c = "GIT" -> "git"
      [] OTHER -> c

\* s.toLowerCase()
ToLowerCase(s) ==
    [i \in 1..Len(s) |-> LowerChunk(s[i])]

----------------------------------------------------------------------------
(* Outcomes of a call: a returned value or a thrown error *)

NotCalled == [state |-> "notCalled"]

Returned(v) == [state |-> "returned", value |-> v]

\* code: the errorStatusCode given to buildError, "none" for a plain Error
Thrown(code, message) == [state |-> "thrown", code |-> code, message |-> message]

----------------------------------------------------------------------------
(* The inputs of the resolver: what git-url-parse reports for an origin URL *)

Protocols == {<<"ssh">>, <<"https">>, <<"SSH">>, <<"Https">>, <<"git">>, <<"file">>}

Resources ==
    { <<"dev.azure.com">>,
      <<"ssh", ".", "dev.azure.com">>,
      <<"org1", ".", "visualstudio.com">>,
      <<"vs-ssh", ".", "visualstudio.com">>,
      <<"dev.azure.com", ".", "visualstudio.com">>,
      <<"github.com">>,
      <<"www", ".", "github.com">>,
      <<"bitbucket.org">>,
      <<"http", "proxy", ".", "local">> }

Organizations == {<<"org1">>, <<"contoso">>}

Owners == {<<"project">>, <<"contoso">>}

Names == {<<"repo">>, <<"hld">>}

ParsedUrls ==
    [protocol : Protocols, resource : Resources, organization : Organizations,
     owner : Owners, name : Names]

BranchNames == {<<"master">>, <<"new-service">>}

----------------------------------------------------------------------------
(* getRepositoryName, getRepositoryUrl, getPullRequestLink, isGitHubUrl *)

AZDO == <<"dev.azure.com">>

VSO == <<"visualstudio.com">>

GITHUB == <<"github.com">>

\* getRepositoryName answering with the name for every host
getRepositoryNameAnyHost(parsed) ==
    Returned(parsed.name)

getRepositoryName(parsed) ==
    IF Includes(parsed.resource, AZDO) THEN Returned(parsed.name)
    ELSE IF Includes(parsed.resource, VSO) THEN Returned(parsed.name)
    ELSE IF parsed.resource = GITHUB THEN Returned(parsed.name)
    ELSE IF ~StartsWithHttp(parsed.resource)
         THEN Thrown("VALIDATION_ERR", "git-err-invalid-repository-url")
         ELSE Thrown("VALIDATION_ERR", "git-err-validating-remote-git")

AzdoRepositoryUrl(parsed) ==
    <<"https://", "dev.azure.com", "/">> \o parsed.organization \o <<"/">>
        \o parsed.owner \o <<"/", "_git", "/">> \o parsed.name

VsoSshRepositoryUrl(parsed) ==
    <<"https://">> \o parsed.organization \o <<".", "visualstudio.com", "/">>
        \o parsed.owner \o <<"/", "_git", "/">> \o parsed.name

VsoHttpsRepositoryUrl(parsed) ==
    <<"https://">> \o parsed.resource \o <<"/">>
        \o parsed.owner \o <<"/", "_git", "/">> \o parsed.name

GitHubRepositoryUrl(parsed) ==
    <<"https://", "github.com", "/">> \o parsed.organization \o <<"/">> \o parsed.name

\* getRepositoryUrl with the visualstudio.com test placed before the dev.azure.com test
getRepositoryUrlVsoFirst(parsed) ==
    IF Includes(parsed.resource, VSO) THEN
        CASE ToLowerCase(parsed.protocol) = <<"ssh">> -> Returned(VsoSshRepositoryUrl(parsed))
          [] ToLowerCase(parsed.protocol) = <<"https">> -> Returned(VsoHttpsRepositoryUrl(parsed))
          [] OTHER -> Thrown("none", "Invalid protocol found in git remote")
    ELSE IF Includes(parsed.resource, AZDO) THEN Returned(AzdoRepositoryUrl(parsed))
    ELSE IF parsed.resource = GITHUB THEN Returned(GitHubRepositoryUrl(parsed))
    ELSE Thrown("none", "Could not determine origin repository, or it is not a supported type.")

getRepositoryUrl(parsed) ==
    IF Includes(parsed.resource, AZDO) THEN Returned(AzdoRepositoryUrl(parsed))
    ELSE IF Includes(parsed.resource, VSO) THEN
        CASE ToLowerCase(parsed.protocol) = <<"ssh">> -> Returned(VsoSshRepositoryUrl(parsed))
          [] ToLowerCase(parsed.protocol) = <<"https">> -> Returned(VsoHttpsRepositoryUrl(parsed))
          [] OTHER -> Thrown("none", "Invalid protocol found in git remote")
    ELSE IF parsed.resource = GITHUB THEN Returned(GitHubRepositoryUrl(parsed))
    ELSE Thrown("none", "Could not determine origin repository, or it is not a supported type.")

PullRequestCreate(newB, baseB) ==
    <<"/", "pullrequestcreate", "?sourceRef=">> \o newB \o <<"&targetRef=">> \o baseB

Compare(newB, baseB) ==
    <<"/", "compare", "/">> \o baseB \o <<"...">> \o newB \o <<"?expand=1">>

OpenManually ==
    <<"Could not determine origin repository, or it is not a supported provider. Please check for the newly pushed branch and open a PR manually.">>

\* getPullRequestLink comparing the protocol without toLowerCase()
getPullRequestLinkCaseSensitive(baseB, newB, parsed) ==
    IF Includes(parsed.resource, AZDO)
    THEN Returned(AzdoRepositoryUrl(parsed) \o PullRequestCreate(newB, baseB))
    ELSE IF Includes(parsed.resource, VSO) THEN
        CASE parsed.protocol = <<"ssh">> ->
                Returned(VsoSshRepositoryUrl(parsed) \o PullRequestCreate(newB, baseB))
          [] parsed.protocol = <<"https">> ->
                Returned(VsoHttpsRepositoryUrl(parsed) \o PullRequestCreate(newB, baseB))
          [] OTHER ->
                Thrown("none", "Could not determine git provider, or it is not a supported type.")
    ELSE IF parsed.resource = GITHUB
    THEN Returned(GitHubRepositoryUrl(parsed) \o Compare(newB, baseB))
    ELSE Returned(OpenManually)

getPullRequestLink(baseB, newB, parsed) ==
    IF Includes(parsed.resource, AZDO)
    THEN Returned(AzdoRepositoryUrl(parsed) \o PullRequestCreate(newB, baseB))
    ELSE IF Includes(parsed.resource, VSO) THEN
        CASE ToLowerCase(parsed.protocol) = <<"ssh">> ->
                Returned(VsoSshRepositoryUrl(parsed) \o PullRequestCreate(newB, baseB))
          [] ToLowerCase(parsed.protocol) = <<"https">> ->
                Returned(VsoHttpsRepositoryUrl(parsed) \o PullRequestCreate(newB, baseB))
          [] OTHER ->
                Thrown("none", "Could not determine git provider, or it is not a supported type.")
    ELSE IF parsed.resource = GITHUB
    THEN Returned(GitHubRepositoryUrl(parsed) \o Compare(newB, baseB))
    ELSE Returned(OpenManually)

\* isGitHubUrl, on the host name of the URL
isGitHubUrl(hostname) ==
    hostname = <<"www", ".", "github.com">> \/ hostname = <<"github.com">>

----------------------------------------------------------------------------
(* The resolver as a state machine: one action per exported function *)

ResolverIdle ==
    /\ parsedUrl = None
    /\ baseBranch = None
    /\ newBranch = None
    /\ repoName = NotCalled
    /\ repoUrl = NotCalled
    /\ prLink = NotCalled

WorkflowIdle ==
    /\ pc = "idle"
    /\ steps = <<>>
    /\ newBranchName = None
    /\ currentBranch = None
    /\ originUrl = None
    /\ pullRequestLink = None
    /\ infoLog = <<>>
    /\ thrown = None
    /\ head = None
    /\ localBranches = {}
    /\ commits = 0
    /\ pushes = 0
    /\ origin = None
    /\ startBranch = None

OriginIdle ==
    /\ appRepoUrl = None
    /\ absRepoPath = None
    /\ gitConfig = None
    /\ originPc = "idle"
    /\ gitConfigCalls = 0
    /\ gitExit = "notRun"
    /\ originResult = NotCalled
    /\ debugLog = <<>>
    /\ warnLog = <<>>
    /\ azdoOrigin = NotCalled
    /\ gitOrigin = NotCalled

OnboardIdle ==
    /\ requiredArgs = None
    /\ argErrors = NotCalled
    /\ storageName = None
    /\ storageVerdicts = <<>>
    /\ tableName = None
    /\ tableVerdicts = <<>>

ResolverInit ==
    /\ parsedUrl \in ParsedUrls
    /\ baseBranch \in BranchNames
    /\ newBranch \in BranchNames
    /\ repoName = NotCalled
    /\ repoUrl = NotCalled
    /\ prLink = NotCalled
    /\ WorkflowIdle
    /\ OriginIdle
    /\ OnboardIdle

CallGetRepositoryName ==
    /\ repoName = NotCalled
    /\ repoName' = getRepositoryName(parsedUrl)
    /\ UNCHANGED <<parsedUrl, baseBranch, newBranch, repoUrl, prLink>>
    /\ UNCHANGED <<workflowVars, originVars, onboardVars>>

CallGetRepositoryUrl ==
    /\ repoUrl = NotCalled
    /\ repoUrl' = getRepositoryUrl(parsedUrl)
    /\ UNCHANGED <<parsedUrl, baseBranch, newBranch, repoName, prLink>>
    /\ UNCHANGED <<workflowVars, originVars, onboardVars>>

CallGetPullRequestLink ==
    /\ prLink = NotCalled
    /\ prLink' = getPullRequestLink(baseBranch, newBranch, parsedUrl)
    /\ UNCHANGED <<parsedUrl, baseBranch, newBranch, repoName, repoUrl>>
    /\ UNCHANGED <<workflowVars, originVars, onboardVars>>

ResolverNext ==
    \/ CallGetRepositoryName
    \/ CallGetRepositoryUrl
    \/ CallGetPullRequestLink

SpecResolver == ResolverInit /\ [][ResolverNext]_vars

----------------------------------------------------------------------------
(* checkoutCommitPushCreatePRLink: one action per awaited step.  A step's  *)
(* git command may fail for reasons outside the program (\E over the       *)
(* outcome) and fails for certain when git's own precondition is not met.  *)

WorkflowBranches == {<<"master">>, <<"develop">>, <<"new-service">>}

NewBranchNames == {<<"new-service">>, <<"hotfix">>}

\* the origin URLs of the workflow's repository, as git-url-parse reads them
WorkflowOrigins ==
    {p \in ParsedUrls :
        p.organization = <<"contoso">> /\ p.owner = <<"project">> /\ p.name = <<"repo">>}

\* buildError(errorStatusCode, errorKey, cause)
buildError(code, key, cause) ==
    [state |-> "thrown", code |-> code, key |-> key, cause |-> cause]

\* The Error a failed step ends as when it reaches the outer catch: the text
\* its .catch() puts before the inner error and the remediation it names
\* ("none" when the text names none).  getOriginUrl is awaited without a
\* .catch(), so its own "Unable to get git origin URL" arrives unwrapped.
StepError(step) ==
    CASE step = "getCurrentBranch" ->
            [context |-> "Cannot fetch current branch.",
             remediation |-> "Changes will have to be manually committed."]
      [] step = "checkoutNewBranch" ->
            [context |-> "Cannot create and checkout new branch",
             remediation |-> "Changes will have to be manually committed."]
      [] step = "commitPath" ->
            [context |-> "Cannot commit changes",
             remediation |-> "Changes will have to be manually committed."]
      [] step = "pushBranch" ->
            [context |-> "Cannot push branch",
             remediation |-> "Changes will have to be manually committed."]
      [] step = "getOriginUrl" ->
            [context |-> "Unable to get git origin URL",
             remediation |-> "none"]
      [] step = "getPullRequestLink" ->
            [context |-> "Could not create link for Pull Request.",
             remediation |-> "It will need to be done manually."]
      [] step = "checkoutOriginalBranch" ->
            [context |-> "Cannot checkout original branch",
             remediation |-> "Clean up will need to be done manually."]
      [] step = "deleteBranch" ->
            [context |-> "Cannot delete new branch",
             remediation |-> "Cleanup will need to be done manually."]

\* the order of the awaits with the origin lookup moved before the branch creation
AfterOriginFirst(step) ==
    CASE step = "getCurrentBranch" -> "getOriginUrl"
      [] step = "getOriginUrl" -> "checkoutNewBranch"
      [] step = "checkoutNewBranch" -> "commitPath"
      [] step = "commitPath" -> "pushBranch"
      [] step = "pushBranch" -> "getPullRequestLink"
      [] step = "getPullRequestLink" -> "checkoutOriginalBranch"
      [] step = "checkoutOriginalBranch" -> "deleteBranch"
      [] step = "deleteBranch" -> "done"

\* the step awaited after `step` has completed
After(step) ==
    CASE step = "getCurrentBranch" -> "checkoutNewBranch"
      [] step = "checkoutNewBranch" -> "commitPath"
      [] step = "commitPath" -> "pushBranch"
      [] step = "pushBranch" -> "getOriginUrl"
      [] step = "getOriginUrl" -> "getPullRequestLink"
      [] step = "getPullRequestLink" -> "checkoutOriginalBranch"
      [] step = "checkoutOriginalBranch" -> "deleteBranch"
      [] step = "deleteBranch" -> "done"

\* a step starts: it is the one awaited
Start(step) ==
    /\ pc = step
    /\ steps' = Append(steps, step)

\* the step's promise resolved: go on to the next await
Completed(step) ==
    /\ pc' = After(step)
    /\ thrown' = thrown

\* the step's promise rejected: the outer catch rethrows, nothing else runs
Failed(step) ==
    /\ pc' = "failed"
    /\ thrown' = buildError("GIT_OPS_ERR", "git-checkout-commit-push-create-PR-link",
                            StepError(step))

WorkflowInit ==
    /\ pc = "getCurrentBranch"
    /\ steps = <<>>
    /\ newBranchName \in NewBranchNames
    /\ currentBranch = None
    /\ originUrl = None
    /\ pullRequestLink = None
    /\ infoLog = <<>>
    /\ thrown = None
    /\ localBranches \in (SUBSET WorkflowBranches) \ {{}}
    /\ head \in localBranches
    /\ startBranch = head
    /\ commits = 0
    /\ pushes = 0
    /\ origin \in WorkflowOrigins
    /\ ResolverIdle
    /\ OriginIdle
    /\ OnboardIdle

\* const currentBranch = await getCurrentBranch()
GetCurrentBranch ==
    /\ Start("getCurrentBranch")
    /\ \/ /\ currentBranch' = head
          /\ Completed("getCurrentBranch")
       \/ /\ Failed("getCurrentBranch")
          /\ UNCHANGED currentBranch
    /\ UNCHANGED <<newBranchName, originUrl, pullRequestLink, infoLog, head,
                   localBranches, commits, pushes, origin>>
    /\ UNCHANGED startBranch
    /\ UNCHANGED <<resolverVars, originVars, onboardVars>>

\* await checkoutBranch(newBranchName, true): git checkout -b
CheckoutNewBranch ==
    /\ Start("checkoutNewBranch")
    /\ \/ /\ newBranchName \notin localBranches
          /\ head' = newBranchName
          /\ localBranches' = localBranches \cup {newBranchName}
          /\ Completed("checkoutNewBranch")
       \/ /\ Failed("checkoutNewBranch")
          /\ UNCHANGED <<head, localBranches>>
    /\ UNCHANGED <<newBranchName, currentBranch, originUrl, pullRequestLink, infoLog,
                   commits, pushes, origin>>
    /\ UNCHANGED startBranch
    /\ UNCHANGED <<resolverVars, originVars, onboardVars>>

\* await commitPath(newBranchName, ...pathspecs): git add, then git commit
CommitPath ==
    /\ Start("commitPath")
    /\ \/ /\ commits' = commits + 1
          /\ Completed("commitPath")
       \/ /\ Failed("commitPath")
          /\ UNCHANGED commits
    /\ UNCHANGED <<newBranchName, currentBranch, originUrl, pullRequestLink, infoLog,
                   head, localBranches, pushes, origin>>
    /\ UNCHANGED startBranch
    /\ UNCHANGED <<resolverVars, originVars, onboardVars>>

\* pushBranch whose failure checks the original branch out again and deletes the new one
PushBranchWithRollback ==
    /\ Start("pushBranch")
    /\ \/ /\ pushes' = pushes + 1
          /\ Completed("pushBranch")
          /\ UNCHANGED <<head, localBranches>>
       \/ /\ Failed("pushBranch")
          /\ head' = currentBranch
          /\ localBranches' = localBranches \ {newBranchName}
          /\ UNCHANGED pushes
    /\ UNCHANGED <<newBranchName, currentBranch, originUrl, pullRequestLink, infoLog,
                   commits, origin>>
    /\ UNCHANGED startBranch
    /\ UNCHANGED <<resolverVars, originVars, onboardVars>>

\* await pushBranch(newBranchName): git push -u origin
PushBranch ==
    /\ Start("pushBranch")
    /\ \/ /\ pushes' = pushes + 1
          /\ Completed("pushBranch")
       \/ /\ Failed("pushBranch")
          /\ UNCHANGED pushes
    /\ UNCHANGED <<newBranchName, currentBranch, originUrl, pullRequestLink, infoLog,
                   head, localBranches, commits, origin>>
    /\ UNCHANGED startBranch
    /\ UNCHANGED <<resolverVars, originVars, onboardVars>>

\* const originUrl = await getOriginUrl(): git config --get remote.origin.url
GetOriginUrl ==
    /\ Start("getOriginUrl")
    /\ \/ /\ originUrl' = origin
          /\ Completed("getOriginUrl")
       \/ /\ Failed("getOriginUrl")
          /\ UNCHANGED originUrl
    /\ UNCHANGED <<newBranchName, currentBranch, pullRequestLink, infoLog, head,
                   localBranches, commits, pushes, origin>>
    /\ UNCHANGED startBranch
    /\ UNCHANGED <<resolverVars, originVars, onboardVars>>

\* the link step passing the two branches to getPullRequestLink in the other order
GetPullRequestLinkSwapped ==
    /\ Start("getPullRequestLink")
    /\ LET link == getPullRequestLink(newBranchName, currentBranch, originUrl)
       IN  \/ /\ link.state = "returned"
              /\ pullRequestLink' = link.value
              /\ infoLog' = Append(infoLog, <<"Link to create PR: ">> \o link.value)
              /\ Completed("getPullRequestLink")
           \/ /\ link.state = "thrown"
              /\ Failed("getPullRequestLink")
              /\ UNCHANGED <<pullRequestLink, infoLog>>
    /\ UNCHANGED <<newBranchName, currentBranch, originUrl, head, localBranches,
                   commits, pushes, origin>>
    /\ UNCHANGED startBranch
    /\ UNCHANGED <<resolverVars, originVars, onboardVars>>

\* const pullRequestLink = await getPullRequestLink(currentBranch, newBranchName,
\* originUrl); logger.info(`Link to create PR: ${pullRequestLink}`)
GetPullRequestLink ==
    /\ Start("getPullRequestLink")
    /\ LET link == getPullRequestLink(currentBranch, newBranchName, originUrl)
       IN  \/ /\ link.state = "returned"
              /\ pullRequestLink' = link.value
              /\ infoLog' = Append(infoLog, <<"Link to create PR: ">> \o link.value)
              /\ Completed("getPullRequestLink")
           \/ /\ link.state = "thrown"
              /\ Failed("getPullRequestLink")
              /\ UNCHANGED <<pullRequestLink, infoLog>>
    /\ UNCHANGED <<newBranchName, currentBranch, originUrl, head, localBranches,
                   commits, pushes, origin>>
    /\ UNCHANGED startBranch
    /\ UNCHANGED <<resolverVars, originVars, onboardVars>>

\* await checkoutBranch(currentBranch, false): git checkout
CheckoutOriginalBranch ==
    /\ Start("checkoutOriginalBranch")
    /\ \/ /\ currentBranch \in localBranches
          /\ head' = currentBranch
          /\ Completed("checkoutOriginalBranch")
       \/ /\ Failed("checkoutOriginalBranch")
          /\ UNCHANGED head
    /\ UNCHANGED <<newBranchName, currentBranch, originUrl, pullRequestLink, infoLog,
                   localBranches, commits, pushes, origin>>
    /\ UNCHANGED startBranch
    /\ UNCHANGED <<resolverVars, originVars, onboardVars>>

\* await deleteBranch(newBranchName): git branch -D
DeleteBranch ==
    /\ Start("deleteBranch")
    /\ \/ /\ newBranchName \in localBranches
          /\ head # newBranchName
          /\ localBranches' = localBranches \ {newBranchName}
          /\ Completed("deleteBranch")
       \/ /\ Failed("deleteBranch")
          /\ UNCHANGED localBranches
    /\ UNCHANGED <<newBranchName, currentBranch, originUrl, pullRequestLink, infoLog,
                   head, commits, pushes, origin>>
    /\ UNCHANGED startBranch
    /\ UNCHANGED <<resolverVars, originVars, onboardVars>>

WorkflowNext ==
    \/ GetCurrentBranch
    \/ CheckoutNewBranch
    \/ CommitPath
    \/ PushBranch
    \/ GetOriginUrl
    \/ GetPullRequestLink
    \/ CheckoutOriginalBranch
    \/ DeleteBranch

SpecWorkflow == WorkflowInit /\ [][WorkflowNext]_vars

----------------------------------------------------------------------------
(* safeGitUrlForLogging, getAzdoOriginUrl, getOriginUrl, tryGetGitOrigin *)

\* The user-info parts tried: none, a user alone (the organization, as in
\* the clone URLs Azure DevOps hands out), user and password, and the two
\* forms that carry a token.
UserInfos ==
    { <<>>,
      <<"contoso">>,
      <<"build", ":", "s3cret">>,
      <<"s3cret", ":", "x-oauth-basic">>,
      <<"x-token-auth", ":", "s3cret">> }

\* the token git-url-parse finds in the user-info part
TokenOf(user) ==
    IF Len(user) = 3 /\ user[2] = ":" /\ user[3] = "x-oauth-basic" THEN <<user[1]>>
    ELSE IF Len(user) = 3 /\ user[2] = ":" /\ user[1] = "x-token-auth" THEN <<user[3]>>
    ELSE <<>>

\* an https URL with what git-url-parse reports for it: href is the URL as
\* written, user the text before "@", pathname the path
HttpsUrl(user, host, path, org, owner, name) ==
    [href |-> <<"https://">> \o (IF user = <<>> THEN <<>> ELSE user \o <<"@">>)
              \o host \o path,
     protocol |-> <<"https">>, user |-> user, token |-> TokenOf(user),
     resource |-> host, pathname |-> path,
     organization |-> org, owner |-> owner, name |-> name]

\* an scp-style ssh URL, user@host:path
SshUrl(user, host, path, org, owner, name) ==
    [href |-> user \o <<"@">> \o host \o <<":">> \o SubSeq(path, 2, Len(path)),
     protocol |-> <<"ssh">>, user |-> user, token |-> <<>>,
     resource |-> host, pathname |-> path,
     organization |-> org, owner |-> owner, name |-> name]

\* The URLs of the model with what git-url-parse reports for each.
KnownUrls ==
    {HttpsUrl(u, <<"dev.azure.com">>,
              <<"/", "contoso", "/", "project", "/", "_git", "/", "repo">>,
              <<"contoso">>, <<"project">>, <<"repo">>) : u \in UserInfos}
    \cup {HttpsUrl(u, <<"github.com">>, <<"/", "contoso", "/", "repo", ".git">>,
                   <<"contoso">>, <<"contoso">>, <<"repo">>) :
            u \in {<<>>, <<"x-token-auth", ":", "s3cret">>}}
    \cup {SshUrl(u, <<"github.com">>, <<"/", "contoso", "/", "repo", ".git">>,
                 <<"contoso">>, <<"contoso">>, <<"repo">>) :
            u \in {<<"git">>, <<"deploy">>}}

UrlStrings == {u.href : u \in KnownUrls}

\* GitUrlParse(repoUrl): any other text is read as a local path
GitUrlParse(url) ==
    IF url \in UrlStrings
    THEN CHOOSE u \in KnownUrls : u.href = url
    ELSE [href |-> url, protocol |-> <<"file">>, user |-> <<>>, token |-> <<>>,
          resource |-> <<>>, pathname |-> url, organization |-> <<>>,
          owner |-> <<>>, name |-> <<>>]

\* safeGitUrlForLogging looking at the token alone
safeGitUrlForLoggingTokenOnly(url) ==
    LET parsedUrl_ == GitUrlParse(url)
    IN  IF parsedUrl_.token # <<>>
        THEN parsedUrl_.protocol \o <<"://">> \o parsedUrl_.resource \o parsedUrl_.pathname
        ELSE url

safeGitUrlForLogging(url) ==
    LET parsedUrl_ == GitUrlParse(url)
    IN  IF parsedUrl_.user # <<>> \/ parsedUrl_.token # <<>>
        THEN parsedUrl_.protocol \o <<"://">> \o parsedUrl_.resource \o parsedUrl_.pathname
        ELSE url

RepoPaths == {<<".">>, <<"/", "work", "/", "hld">>}

\* no remote.origin.url is configured: a chunk no URL contains
NoRemote == <<"<no remote>">>

\* the value undefined where a string is expected: a chunk no string contains
Undefined == <<"<undefined>">>

\* getAzdoOriginUrl throwing only when APP_REPO_URL is undefined
getAzdoOriginUrlEmptyAccepted(env) ==
    IF env = Undefined
    THEN Thrown("none", "Unable to get azdo origin URL")
    ELSE Returned(env)

\* getAzdoOriginUrl: `!process.env.APP_REPO_URL` is true of undefined and of ""
getAzdoOriginUrl(env) ==
    IF env = Undefined \/ env = <<>>
    THEN Thrown("none", "Unable to get azdo origin URL")
    ELSE Returned(env)

OriginInit ==
    /\ appRepoUrl \in UrlStrings \cup {Undefined, <<>>}
    /\ absRepoPath \in RepoPaths \cup {Undefined}
    /\ gitConfig \in [RepoPaths -> UrlStrings \cup {NoRemote}]
    /\ originPc = "call"
    /\ gitConfigCalls = 0
    /\ gitExit = "notRun"
    /\ originResult = NotCalled
    /\ debugLog = <<>>
    /\ warnLog = <<>>
    /\ azdoOrigin = NotCalled
    /\ gitOrigin = NotCalled
    /\ ResolverIdle
    /\ WorkflowIdle
    /\ OnboardIdle

\* tryGetGitOrigin up to the await of the fallback: getAzdoOriginUrl(), and
\* in its .catch() the warning
TryGetGitOrigin ==
    /\ originPc = "call"
    /\ LET azdo == getAzdoOriginUrl(appRepoUrl)
       IN  \/ /\ azdo.state = "returned"
              /\ debugLog' = Append(debugLog, <<"Got azdo git origin url ">>
                                              \o safeGitUrlForLogging(azdo.value))
              /\ originResult' = azdo
              /\ originPc' = "done"
              /\ UNCHANGED warnLog
           \/ /\ azdo.state = "thrown"
              /\ warnLog' = Append(warnLog, "Could not get Git Origin for Azure DevOps")
              /\ originPc' = "getOriginUrl"
              /\ UNCHANGED <<debugLog, originResult>>
    /\ UNCHANGED <<appRepoUrl, absRepoPath, gitConfig, gitConfigCalls, gitExit,
                   azdoOrigin, gitOrigin>>
    /\ UNCHANGED <<resolverVars, workflowVars, onboardVars>>

\* the directory getOriginUrl runs git in: absRepositoryPath = "."
OriginCwd == IF absRepoPath = Undefined THEN <<".">> ELSE absRepoPath

\* getOriginUrl(absRepoPath), the fallback
GetOriginUrlFallback ==
    /\ originPc = "getOriginUrl"
    /\ gitConfigCalls' = gitConfigCalls + 1
    /\ \/ /\ gitConfig[OriginCwd] # NoRemote
          /\ gitExit' = "ok"
          /\ debugLog' = Append(debugLog, <<"Got git origin url ">>
                                          \o safeGitUrlForLogging(gitConfig[OriginCwd]))
          /\ originResult' = Returned(gitConfig[OriginCwd])
       \/ /\ gitExit' = "failed"
          /\ originResult' = Thrown("none", "Unable to get git origin URL")
          /\ UNCHANGED debugLog
    /\ originPc' = "done"
    /\ UNCHANGED <<appRepoUrl, absRepoPath, gitConfig, warnLog, azdoOrigin, gitOrigin>>
    /\ UNCHANGED <<resolverVars, workflowVars, onboardVars>>

OriginNext ==
    \/ TryGetGitOrigin
    \/ GetOriginUrlFallback

SpecOrigin == OriginInit /\ [][OriginNext]_vars

(* getAzdoOriginUrl and getOriginUrl called on their own, each once *)

OriginLogInit ==
    /\ appRepoUrl \in UrlStrings \cup {Undefined, <<>>}
    /\ absRepoPath \in RepoPaths \cup {Undefined}
    /\ gitConfig \in [RepoPaths -> UrlStrings \cup {NoRemote}]
    /\ originPc = "idle"
    /\ gitConfigCalls = 0
    /\ gitExit = "notRun"
    /\ originResult = NotCalled
    /\ debugLog = <<>>
    /\ warnLog = <<>>
    /\ azdoOrigin = NotCalled
    /\ gitOrigin = NotCalled
    /\ ResolverIdle
    /\ WorkflowIdle
    /\ OnboardIdle

\* getAzdoOriginUrl()
CallGetAzdoOriginUrl ==
    /\ originPc = "idle"
    /\ azdoOrigin = NotCalled
    /\ azdoOrigin' = getAzdoOriginUrl(appRepoUrl)
    /\ IF azdoOrigin'.state = "returned"
       THEN debugLog' = Append(debugLog, <<"Got azdo git origin url ">>
                                         \o safeGitUrlForLogging(appRepoUrl))
       ELSE UNCHANGED debugLog
    /\ UNCHANGED <<appRepoUrl, absRepoPath, gitConfig, originPc, gitConfigCalls, gitExit,
                   originResult, warnLog, gitOrigin>>
    /\ UNCHANGED <<resolverVars, workflowVars, onboardVars>>

\* getOriginUrl(absRepoPath)
CallGetOriginUrl ==
    /\ originPc = "idle"
    /\ gitOrigin = NotCalled
    /\ gitConfigCalls' = gitConfigCalls + 1
    /\ \/ /\ gitConfig[OriginCwd] # NoRemote
          /\ gitExit' = "ok"
          /\ debugLog' = Append(debugLog, <<"Got git origin url ">>
                                          \o safeGitUrlForLogging(gitConfig[OriginCwd]))
          /\ gitOrigin' = Returned(gitConfig[OriginCwd])
       \/ /\ gitExit' = "failed"
          /\ gitOrigin' = Thrown("none", "Unable to get git origin URL")
          /\ UNCHANGED debugLog
    /\ UNCHANGED <<appRepoUrl, absRepoPath, gitConfig, originPc, originResult, warnLog,
                   azdoOrigin>>
    /\ UNCHANGED <<resolverVars, workflowVars, onboardVars>>

OriginLogNext ==
    \/ CallGetAzdoOriginUrl
    \/ CallGetOriginUrl

SpecOriginLog == OriginLogInit /\ [][OriginLogNext]_vars

----------------------------------------------------------------------------
(* validateRequiredArguments and validateStorageName of                    *)
(* commands/deployment/onboard.ts, modelled from the specification's rules *)
(* ("all required fields must be present and non-empty", "accept/reject    *)
(* per Azure naming rules") and from the cases of onboard.test.ts.         *)

RequiredFields ==
    <<"storageAccountName", "storageTableName", "storageResourceGroup",
      "servicePrincipalId", "servicePrincipalPassword", "subscriptionId", "tenantId">>

FieldNames == {RequiredFields[i] : i \in 1..Len(RequiredFields)}

\* an argument is undefined, the empty string, or some text
ArgValues == {Undefined, <<>>, <<"value">>}

hasValue(v) ==
    v # Undefined /\ v # <<>>

RECURSIVE collectErrors(_, _)
\* the errors for the fields from position i on, in the order of the fields
collectErrors(args, i) ==
    IF i > Len(RequiredFields) THEN <<>>
    ELSE IF hasValue(args[RequiredFields[i]])
         THEN collectErrors(args, i + 1)
         ELSE <<RequiredFields[i]>> \o collectErrors(args, i + 1)

\* validateRequiredArguments that never looks at accessOpts.tenantId
validateRequiredArgumentsSkipLast(args) ==
    collectErrors([args EXCEPT !["tenantId"] = <<"value">>], 1)

validateRequiredArguments(args) ==
    collectErrors(args, 1)

MinStorageNameLength == 3

MaxStorageNameLength == 24

LowerCaseLetters == {"a", "t"}

Digits == {"1", "2"}

\* validateStorageName accepting one character more
validateStorageNameOffByOne(name) ==
    /\ Len(name) >= MinStorageNameLength
    /\ Len(name) <= MaxStorageNameLength + 1
    /\ \A i \in 1..Len(name) : name[i] \in LowerCaseLetters \cup Digits

\* validateStorageName: 3 to 24 lower-case letters and digits
validateStorageName(name) ==
    /\ Len(name) >= MinStorageNameLength
    /\ Len(name) <= MaxStorageNameLength
    /\ \A i \in 1..Len(name) : name[i] \in LowerCaseLetters \cup Digits

\* the longest name tried
MaxNameLength == 26

\* how often one name is validated
MaxCalls == 2

\* The names tried: n characters, the first k of them the digit "1" and
\* the rest the letter "a", with the character at position p (if p > 0)
\* replaced by c.  "teststorage", "12teststorage", "teststoragE",
\* "test-storage", 24 and 25 letters are all of this shape.
ShapedName(n, k, p, c) ==
    [i \in 1..n |-> IF i = p THEN c ELSE IF i <= k THEN "1" ELSE "a"]

StorageNames ==
    {ShapedName(n, k, p, c) :
        n \in 0..MaxNameLength, k \in 0..2, p \in 0..3, c \in {"E", "-", "2", "t"}}
    \cup {ShapedName(n, 0, n, c) : n \in 1..MaxNameLength, c \in {"E", "-", "2"}}

ValidateArgsInit ==
    /\ requiredArgs \in [FieldNames -> ArgValues]
    /\ argErrors = NotCalled
    /\ storageName = None
    /\ storageVerdicts = <<>>
    /\ tableName = None
    /\ tableVerdicts = <<>>
    /\ ResolverIdle
    /\ WorkflowIdle
    /\ OriginIdle

CallValidateRequiredArguments ==
    /\ argErrors = NotCalled
    /\ argErrors' = Returned(validateRequiredArguments(requiredArgs))
    /\ UNCHANGED <<requiredArgs, storageName, storageVerdicts, tableName, tableVerdicts>>
    /\ UNCHANGED <<resolverVars, workflowVars, originVars>>

ValidateArgsNext ==
    CallValidateRequiredArguments

SpecValidateArgs == ValidateArgsInit /\ [][ValidateArgsNext]_vars

StorageNameInit ==
    /\ storageName \in StorageNames
    /\ storageVerdicts = <<>>
    /\ requiredArgs = None
    /\ argErrors = NotCalled
    /\ tableName = None
    /\ tableVerdicts = <<>>
    /\ ResolverIdle
    /\ WorkflowIdle
    /\ OriginIdle

CallValidateStorageName ==
    /\ Len(storageVerdicts) < MaxCalls
    /\ storageVerdicts' = Append(storageVerdicts, validateStorageName(storageName))
    /\ UNCHANGED <<requiredArgs, argErrors, storageName, tableName, tableVerdicts>>
    /\ UNCHANGED <<resolverVars, workflowVars, originVars>>

StorageNameNext ==
    CallValidateStorageName

SpecStorageName == StorageNameInit /\ [][StorageNameNext]_vars

(* validateTableName of commands/deployment/onboard.ts, modelled like      *)
(* validateStorageName from the Azure table naming rule and the cases of   *)
(* onboard.test.ts.                                                        *)

MinTableNameLength == 3

MaxTableNameLength == 63

Letters == {"d", "A"}

\* validateTableName without the test of the first character
validateTableNameAnyFirst(name) ==
    /\ Len(name) >= MinTableNameLength
    /\ Len(name) <= MaxTableNameLength
    /\ \A i \in 1..Len(name) : name[i] \in Letters \cup Digits

\* validateTableName: a letter, then 2 to 62 letters and digits
validateTableName(name) ==
    /\ Len(name) >= MinTableNameLength
    /\ Len(name) <= MaxTableNameLength
    /\ name[1] \in Letters
    /\ \A i \in 1..Len(name) : name[i] \in Letters \cup Digits

\* the longest table name tried
MaxTableNameTried == 65

\* The table names tried: n characters, the first one `first` and the
\* others "d", with the character at position p (if p > 0) replaced by c
\* and, when both is set, the last two characters replaced by "$@".
\* "deployment", "21deployment", "deployment$@" and the 64 letters of the
\* tests are of this shape.
TableShapedName(n, first, p, c, both) ==
    [i \in 1..n |->
        IF both /\ n >= 2 /\ i = n - 1 THEN "$"
        ELSE IF both /\ n >= 2 /\ i = n THEN "@"
        ELSE IF i = p THEN c
        ELSE IF i = 1 THEN first
        ELSE "d"]

TableNames ==
    {TableShapedName(n, first, p, c, both) :
        n \in 0..MaxTableNameTried, first \in {"d", "A", "2"}, p \in {0, 2},
        c \in {"$", "@", "2", "A"}, both \in BOOLEAN}

TableNameInit ==
    /\ tableName \in TableNames
    /\ tableVerdicts = <<>>
    /\ requiredArgs = None
    /\ argErrors = NotCalled
    /\ storageName = None
    /\ storageVerdicts = <<>>
    /\ ResolverIdle
    /\ WorkflowIdle
    /\ OriginIdle

CallValidateTableName ==
    /\ Len(tableVerdicts) < MaxCalls
    /\ tableVerdicts' = Append(tableVerdicts, validateTableName(tableName))
    /\ UNCHANGED <<requiredArgs, argErrors, storageName, storageVerdicts, tableName>>
    /\ UNCHANGED <<resolverVars, workflowVars, originVars>>

TableNameNext ==
    CallValidateTableName

SpecTableName == TableNameInit /\ [][TableNameNext]_vars

----------------------------------------------------------------------------
(* Properties of the validators *)

MissingFields == {f \in FieldNames : requiredArgs[f] \in {Undefined, <<>>}}

\* C9: validateRequiredArguments returns exactly one error per required
\* field that is undefined or empty: 7 when all seven are, 1 when exactly
\* one is, and none exactly when all seven are present and non-empty.
C9_OneErrorPerMissingField ==
    argErrors # NotCalled =>
        /\ argErrors.state = "returned"
        /\ Len(argErrors.value) = Cardinality(MissingFields)
        /\ {argErrors.value[i] : i \in 1..Len(argErrors.value)} = MissingFields
        /\ MissingFields = FieldNames => Len(argErrors.value) = 7
        /\ argErrors.value = <<>> <=> MissingFields = {}

\* C9 witness: validated with only tenantId missing, which gave one error.
C9_Witness ==
    /\ argErrors # NotCalled
    /\ MissingFields = {"tenantId"}
    /\ Len(argErrors.value) = 1

\* C10: validateStorageName accepts a name exactly when it consists only of
\* lower-case letters and digits (a leading digit allowed, upper case and
\* "-" rejected) and its length is within the bounds, 24 accepted and 25
\* rejected; every validation of the same name gives the same verdict.
C10_StorageNameRule ==
    \A j \in 1..Len(storageVerdicts) :
        LET chars == {storageName[i] : i \in 1..Len(storageName)}
            n == Len(storageName)
        IN  /\ storageVerdicts[j] =
                  (chars \subseteq {"a", "t", "1", "2"} /\ n >= 3 /\ n <= 24)
            /\ (n = 24 /\ chars = {"a"}) => storageVerdicts[j]
            /\ n = 25 => ~storageVerdicts[j]
            /\ ("E" \in chars \/ "-" \in chars) => ~storageVerdicts[j]
            /\ storageVerdicts[j] = storageVerdicts[1]

\* C10 witness: a name of 24 lower-case letters was validated twice and accepted.
C10_Witness ==
    /\ Len(storageName) = 24
    /\ \A i \in 1..24 : storageName[i] = "a"
    /\ Len(storageVerdicts) = 2
    /\ storageVerdicts[1]

----------------------------------------------------------------------------
(* Properties of tryGetGitOrigin, checked under SpecOrigin *)

LoggedAfter(text) ==
    {SubSeq(debugLog[i], 2, Len(debugLog[i])) :
        i \in {k \in 1..Len(debugLog) : debugLog[k][1] = text}}

\* url without its user-info part (the text up to "@")
WithoutUserInfo(url) ==
    IF \E i \in 1..Len(url) : url[i] = "@"
    THEN LET at == CHOOSE i \in 1..Len(url) : url[i] = "@"
         IN  SubSeq(url, at + 1, Len(url))
    ELSE IF Len(url) > 0 /\ url[1] = "https://" THEN SubSeq(url, 2, Len(url)) ELSE url

HasCredentials(url) ==
    GitUrlParse(url).user # <<>> \/ GitUrlParse(url).token # <<>>

\* what C12 says the log shows for url
ScrubbedAsClaimed(url) ==
    IF HasCredentials(url)
    THEN GitUrlParse(url).protocol \o <<"://">> \o GitUrlParse(url).resource
             \o GitUrlParse(url).pathname
    ELSE url

\* the URL a direct getOriginUrl reads from the git config
ConfiguredUrl == gitConfig[IF absRepoPath = Undefined THEN <<".">> ELSE absRepoPath]

\* C12 (as claimed): a URL with a user or a token is logged as
\* {protocol}://{resource}{pathname}, and what is logged contains neither
\* the user nor the token.
C12_LoggedWithoutUserText ==
    /\ (azdoOrigin.state = "returned" /\ HasCredentials(appRepoUrl)) =>
          \A l \in LoggedAfter("Got azdo git origin url ") :
              /\ l = ScrubbedAsClaimed(appRepoUrl)
              /\ ~Includes(l, GitUrlParse(appRepoUrl).user)
    /\ (gitOrigin.state = "returned" /\ HasCredentials(ConfiguredUrl)) =>
          \A l \in LoggedAfter("Got git origin url ") :
              /\ l = ScrubbedAsClaimed(ConfiguredUrl)
              /\ ~Includes(l, GitUrlParse(ConfiguredUrl).user)

\* C12 (amended): a URL with a user or a token is logged as
\* {protocol}://{resource}{pathname}, without its user-info part: no "@",
\* no password and no token, and the same text for two URLs that differ
\* only in their credentials; the user's text may still show where the
\* host or the path holds the same text.  A URL with neither is logged
\* unchanged.  getAzdoOriginUrl and getOriginUrl log nothing else.
C12_LogScrubbed ==
    /\ LoggedAfter("Got azdo git origin url ") =
          IF azdoOrigin.state = "returned" THEN {ScrubbedAsClaimed(appRepoUrl)} ELSE {}
    /\ LoggedAfter("Got git origin url ") =
          IF gitOrigin.state = "returned" THEN {ScrubbedAsClaimed(ConfiguredUrl)} ELSE {}
    /\ \A i \in 1..Len(debugLog) :
          /\ debugLog[i][1] \in {"Got azdo git origin url ", "Got git origin url "}
          /\ \A k \in 2..Len(debugLog[i]) :
                debugLog[i][k] \notin {"@", "s3cret", "x-oauth-basic", "x-token-auth"}
    /\ (/\ azdoOrigin.state = "returned"
        /\ gitOrigin.state = "returned"
        /\ HasCredentials(appRepoUrl)
        /\ HasCredentials(ConfiguredUrl)
        /\ WithoutUserInfo(appRepoUrl) = WithoutUserInfo(ConfiguredUrl)) =>
          LoggedAfter("Got azdo git origin url ") = LoggedAfter("Got git origin url ")
    /\ (azdoOrigin.state = "returned" /\ ~HasCredentials(appRepoUrl)) =>
          LoggedAfter("Got azdo git origin url ") = {appRepoUrl}
    /\ (gitOrigin.state = "returned" /\ ~HasCredentials(ConfiguredUrl)) =>
          LoggedAfter("Got git origin url ") = {ConfiguredUrl}

\* C12 witness: both functions logged, for two URLs that differ only in
\* their credentials, one of them carrying a token.
C12_Witness ==
    /\ azdoOrigin.state = "returned"
    /\ gitOrigin.state = "returned"
    /\ appRepoUrl # ConfiguredUrl
    /\ GitUrlParse(appRepoUrl).token # <<>>
    /\ GitUrlParse(ConfiguredUrl).user # <<>>
    /\ WithoutUserInfo(appRepoUrl) = WithoutUserInfo(ConfiguredUrl)
    /\ Len(debugLog) = 2

----------------------------------------------------------------------------
(* Properties of checkoutCommitPushCreatePRLink, checked under SpecWorkflow *)

StepsStarted == {steps[i] : i \in 1..Len(steps)}

IsPrefix(s, t) ==
    Len(s) <= Len(t) /\ s = SubSeq(t, 1, Len(s))

\* the step that failed, when the workflow has failed
FailedStep == steps[Len(steps)]

\* C1 (as claimed): the origin URL is resolved before the new branch is
\* created, committed and pushed.
C1_OriginResolvedFirst ==
    (StepsStarted \cap {"checkoutNewBranch", "commitPath", "pushBranch"} # {}) =>
        "getOriginUrl" \in StepsStarted

\* C1 (amended): the steps run one at a time, each started only after the
\* previous one completed, in the order get current branch, create and
\* checkout the new branch, commit, push, resolve the origin URL, build the
\* PR link (which parses the URL), checkout the original branch, delete the
\* new branch; the origin URL is resolved only after the push.
C1_StepOrder ==
    /\ IsPrefix(steps, <<"getCurrentBranch", "checkoutNewBranch", "commitPath",
                         "pushBranch", "getOriginUrl", "getPullRequestLink",
                         "checkoutOriginalBranch", "deleteBranch">>)
    /\ originUrl # None => pushes = 1
    /\ pc = "done" => Len(steps) = 8

\* C1 witness: a run that completed all eight steps.
C1_Witness ==
    /\ pc = "done"
    /\ Len(steps) = 8
    /\ originUrl # None

\* C2 (as claimed): whichever step fails, the error thrown is a GIT_OPS_ERR
\* whose message names a manual remediation, the failed step is the last
\* one started, and no step was started twice.
C2_FailureNamesRemediation ==
    pc = "failed" =>
        /\ thrown.code = "GIT_OPS_ERR"
        /\ thrown.cause.remediation # "none"
        /\ thrown.cause = StepError(FailedStep)
        /\ Cardinality(StepsStarted) = Len(steps)

\* C3 (as claimed): when commit, push, origin lookup or PR-link construction
\* fails, the original branch is checked out again and the new branch is
\* deleted before the error is reported.
C3_RollbackOnFailure ==
    (pc = "failed" /\ FailedStep \in {"commitPath", "pushBranch", "getOriginUrl",
                                       "getPullRequestLink"}) =>
        /\ head = currentBranch
        /\ newBranchName \notin localBranches

\* C3 (amended): there is no rollback.  When commit, push, origin lookup or
\* PR-link construction fails, the workflow runs no further git command:
\* the repository stays on the new branch, which still exists locally, and
\* the GIT_OPS_ERR error is all that is reported.
C3_NoRollback ==
    (pc = "failed" /\ FailedStep \in {"commitPath", "pushBranch", "getOriginUrl",
                                       "getPullRequestLink"}) =>
        /\ head = newBranchName
        /\ newBranchName \in localBranches
        /\ StepsStarted \cap {"checkoutOriginalBranch", "deleteBranch"} = {}
        /\ thrown.code = "GIT_OPS_ERR"

\* C3 witness: the push failed after the branch was created and committed.
C3_Witness ==
    /\ pc = "failed"
    /\ FailedStep = "pushBranch"
    /\ commits = 1
    /\ head # currentBranch

\* the host is none of Azure DevOps, Visual Studio Online or GitHub
UnsupportedHost(resource) ==
    /\ ~Includes(resource, AZDO)
    /\ ~Includes(resource, VSO)
    /\ ~isGitHubUrl(resource)

\* the text names source as the branch to merge and target as the branch to
\* merge into, in the form of an Azure DevOps or of a GitHub link
NamesBranches(text, source, target) ==
    \/ Includes(text, <<"?sourceRef=">> \o source \o <<"&targetRef=">> \o target)
    \/ Includes(text, <<"compare", "/">> \o target \o <<"...">> \o source \o <<"?expand=1">>)

\* the host is one getPullRequestLink builds a link for
LinkHost(resource) ==
    \/ Includes(resource, AZDO)
    \/ Includes(resource, VSO)
    \/ resource = GITHUB

\* the repository after a run that completed without error
RepositoryRestored ==
    /\ thrown = None
    /\ head = startBranch
    /\ newBranchName \notin localBranches
    /\ pushes = 1
    /\ Len(infoLog) = 1
    /\ infoLog[1][1] = "Link to create PR: "

\* C13 (as claimed): after a run that completed without error the starting
\* branch is checked out, newBranchName is gone locally, the branch was
\* pushed exactly once, and the logged PR link names newBranchName as its
\* source and the starting branch as its target.
C13_LinkAlwaysNamesBranches ==
    pc = "done" =>
        /\ RepositoryRestored
        /\ NamesBranches(infoLog[1], newBranchName, startBranch)

\* C13 (amended): as above, except that the logged text names the two
\* branches only when the origin's host is one getPullRequestLink builds a
\* link for (contains dev.azure.com or visualstudio.com, or is exactly
\* github.com); for any other host the run still completes and the logged
\* text is the fixed sentence asking to open the PR manually, which names
\* no branch.
C13_CompletedRun ==
    pc = "done" =>
        /\ RepositoryRestored
        /\ IF LinkHost(origin.resource)
           THEN /\ NamesBranches(infoLog[1], newBranchName, startBranch)
                /\ ~NamesBranches(infoLog[1], startBranch, newBranchName)
           ELSE /\ infoLog[1] = <<"Link to create PR: ">> \o OpenManually
                /\ ~NamesBranches(infoLog[1], newBranchName, startBranch)

\* C13 witness: a run completed from a branch other than master and logged a
\* link that names the two branches.
C13_Witness ==
    /\ pc = "done"
    /\ startBranch = <<"develop">>
    /\ newBranchName = <<"hotfix">>
    /\ commits = 1
    /\ NamesBranches(infoLog[1], <<"hotfix">>, <<"develop">>)

----------------------------------------------------------------------------
(* Properties of the resolver, checked under SpecResolver *)

\* C4: for every remote whose host contains dev.azure.com, whatever its
\* protocol and whatever else the host contains (visualstudio.com included),
\* getRepositoryUrl returns https://dev.azure.com/{organization}/{owner}/_git/{name}.
C4_AzdoRepositoryUrl ==
    (Includes(parsedUrl.resource, AZDO) /\ repoUrl # NotCalled) =>
        repoUrl = Returned(<<"https://", "dev.azure.com", "/">> \o parsedUrl.organization
                           \o <<"/">> \o parsedUrl.owner \o <<"/", "_git", "/">>
                           \o parsedUrl.name)

\* C4 witness: getRepositoryUrl has answered for an ssh remote whose host
\* contains both dev.azure.com and visualstudio.com.
C4_Witness ==
    /\ Includes(parsedUrl.resource, AZDO)
    /\ Includes(parsedUrl.resource, VSO)
    /\ parsedUrl.protocol = <<"ssh">>
    /\ repoUrl.state = "returned"

\* C5 (as claimed): for every host isGitHubUrl accepts (github.com and
\* www.github.com), getRepositoryUrl returns https://github.com/{organization}/{name}.
C5_GitHubRepositoryUrl ==
    (isGitHubUrl(parsedUrl.resource) /\ repoUrl # NotCalled) =>
        repoUrl = Returned(<<"https://", "github.com", "/">> \o parsedUrl.organization
                           \o <<"/">> \o parsedUrl.name)

\* the link C6 describes for a Visual Studio Online remote
VsoLinkAsClaimed ==
    LET tail == <<"/">> \o parsedUrl.owner \o <<"/", "_git", "/">> \o parsedUrl.name
                \o <<"/", "pullrequestcreate", "?sourceRef=">> \o newBranch
                \o <<"&targetRef=">> \o baseBranch
        proto == ToLowerCase(parsedUrl.protocol)
    IN  CASE proto = <<"ssh">> ->
                prLink = Returned(<<"https://">> \o parsedUrl.organization
                                  \o <<".", "visualstudio.com">> \o tail)
          [] proto = <<"https">> ->
                prLink = Returned(<<"https://">> \o parsedUrl.resource \o tail)
          [] OTHER -> prLink.state = "thrown"

\* C6 (as claimed): for every host that contains visualstudio.com,
\* getPullRequestLink builds the organization-subdomain link for ssh, the
\* resource-host link for https, and rejects any other protocol.
C6_VsoLinkAnyVsoHost ==
    (Includes(parsedUrl.resource, VSO) /\ prLink # NotCalled) => VsoLinkAsClaimed

\* C6 (amended): the same, for every host that contains visualstudio.com and
\* does not contain dev.azure.com (the dev.azure.com test comes first).
C6_VsoLink ==
    (/\ Includes(parsedUrl.resource, VSO)
     /\ ~Includes(parsedUrl.resource, AZDO)
     /\ prLink # NotCalled) => VsoLinkAsClaimed

\* C6 witness: a link was built for a Visual Studio Online remote whose
\* protocol is spelled in upper case.
C6_Witness ==
    /\ Includes(parsedUrl.resource, VSO)
    /\ ~Includes(parsedUrl.resource, AZDO)
    /\ parsedUrl.protocol = <<"SSH">>
    /\ prLink.state = "returned"

\* C7 (as claimed): for an unsupported host each of getRepositoryName,
\* getRepositoryUrl and getPullRequestLink ends in a validation error.
C7_UnsupportedAllValidationErr ==
    UnsupportedHost(parsedUrl.resource) =>
        /\ repoName # NotCalled =>
               (repoName.state = "thrown" /\ repoName.code = "VALIDATION_ERR")
        /\ repoUrl # NotCalled =>
               (repoUrl.state = "thrown" /\ repoUrl.code = "VALIDATION_ERR")
        /\ prLink # NotCalled =>
               (prLink.state = "thrown" /\ prLink.code = "VALIDATION_ERR")

\* C7 (amended): for an unsupported host getRepositoryName throws a
\* VALIDATION_ERR error, getRepositoryUrl throws a plain Error without a
\* status code, and getPullRequestLink does not fail: it resolves with the
\* fixed sentence asking to open the pull request manually.
C7_Unsupported ==
    UnsupportedHost(parsedUrl.resource) =>
        /\ repoName # NotCalled =>
               (repoName.state = "thrown" /\ repoName.code = "VALIDATION_ERR")
        /\ repoUrl # NotCalled =>
               (repoUrl.state = "thrown" /\ repoUrl.code = "none")
        /\ prLink # NotCalled =>
               (/\ prLink.state = "returned"
                /\ prLink.value = OpenManually
                /\ prLink.value[1] # "https://")

\* C7 witness: all three functions have been called on an unsupported host.
C7_Witness ==
    /\ UnsupportedHost(parsedUrl.resource)
    /\ repoName # NotCalled
    /\ repoUrl # NotCalled
    /\ prLink # NotCalled

\* the link C14 expects for a repository URL: the pull-request page of Azure
\* DevOps and Visual Studio Online, the compare page of GitHub
LinkOn(repository) ==
    IF parsedUrl.resource = <<"github.com">>
    THEN repository \o <<"/", "compare", "/">> \o baseBranch \o <<"...">> \o newBranch
             \o <<"?expand=1">>
    ELSE repository \o <<"/", "pullrequestcreate", "?sourceRef=">> \o newBranch
             \o <<"&targetRef=">> \o baseBranch

\* C14: getRepositoryUrl and getPullRequestLink agree on every origin URL:
\* where getRepositoryUrl returns R, getPullRequestLink returns R followed by
\* /pullrequestcreate?sourceRef={new}&targetRef={base} for Azure DevOps and
\* Visual Studio Online and by /compare/{base}...{new}?expand=1 for GitHub;
\* getPullRequestLink fails only where getRepositoryUrl fails; and for a
\* Visual Studio Online URL whose protocol is neither ssh nor https both
\* fail.
C14_UrlAndLinkAgree ==
    /\ (repoUrl.state = "returned" /\ prLink # NotCalled) =>
          prLink = Returned(LinkOn(repoUrl.value))
    /\ (prLink.state = "thrown" /\ repoUrl # NotCalled) => repoUrl.state = "thrown"
    /\ (/\ Includes(parsedUrl.resource, VSO)
        /\ ~Includes(parsedUrl.resource, AZDO)
        /\ ToLowerCase(parsedUrl.protocol) \notin {<<"ssh">>, <<"https">>}) =>
          /\ repoUrl # NotCalled => repoUrl.state = "thrown"
          /\ prLink # NotCalled => prLink.state = "thrown"

\* C14 witness: both functions returned for a Visual Studio Online remote
\* whose protocol is spelled Https, with two different branches.
C14_Witness ==
    /\ Includes(parsedUrl.resource, VSO)
    /\ ~Includes(parsedUrl.resource, AZDO)
    /\ parsedUrl.protocol = <<"Https">>
    /\ baseBranch # newBranch
    /\ repoUrl.state = "returned"
    /\ prLink.state = "returned"

====
